---------------------------- MODULE Spec2Model ----------------------------
(***************************************************************************)
(* Model of src/converter.py: pairing two collections of text files into   *)
(* one two-column Word table (export_paths_to_word, export_to_word) and    *)
(* splitting such a table back into two file trees (import_from_word).     *)
(*                                                                         *)
(* Text is a sequence of one-character strings.  The Cyrillic literals of  *)
(* the source are transliterated, character for character:                 *)
(*    "Файл:"  is written  F a j l :                                       *)
(*    "Тип файлов:"  is written  T i p _ f a j l o v :   (_ is a space)    *)
(* and "<ya>" stands for one Cyrillic letter of a file's content.          *)
(***************************************************************************)
EXTENDS Integers, Sequences, FiniteSets, TLC

VARIABLES
    fs,       \* path -> file: the plain files that exist
    dirs,     \* the directories that exist
    docs,     \* document path -> document: the .docx files that exist
    log,      \* the records the logger received during the current call
    pc,       \* "idle", "export_loop" or "import_loop": where the call in progress is
    call,     \* the locals of the call in progress (or of the last call)
    result,   \* "none" during a call, then "ok" or the name of the exception raised
    pre,      \* fs, dirs and docs as they were when the current call began
    prev,     \* the locals and the result of the call before the current one
    ncalls    \* number of calls begun so far

vars == <<fs, dirs, docs, log, pc, call, result, pre, prev, ncalls>>

----------------------------------------------------------------------------
(* Bounds of the model *)

\* number of API calls in one behaviour
MaxCalls == 2

\* number of input files that vanish while an export is in its loop
MaxRemoved == 1

----------------------------------------------------------------------------
(* str methods used by the source *)

None == "None"

\* None where a str of characters is expected (file_extension=None)
NoneStr == <<"<None>">>

UpperChars == <<"A","B","C","D","E","F","G","H","I","J","K","L","M",
                "N","O","P","Q","R","S","T","U","V","W","X","Y","Z">>
LowerChars == <<"a","b","c","d","e","f","g","h","i","j","k","l","m",
                "n","o","p","q","r","s","t","u","v","w","x","y","z">>

\* str.lower() on one character
LowerChar(c) ==
    IF \E i \in DOMAIN UpperChars : UpperChars[i] = c
    THEN LowerChars[CHOOSE i \in DOMAIN UpperChars : UpperChars[i] = c]
    ELSE c

\* str.lower()
Lower(s) == [i \in DOMAIN s |-> LowerChar(s[i])]

\* the characters str.strip() removes
IsSpace(c) == c \in {" ", "\t", "\n", "\r"}

RECURSIVE LStrip(_)
LStrip(s) == IF s # <<>> /\ IsSpace(Head(s)) THEN LStrip(Tail(s)) ELSE s

RECURSIVE RStrip(_)
RStrip(s) ==
    IF s # <<>> /\ IsSpace(s[Len(s)]) THEN RStrip(SubSeq(s, 1, Len(s) - 1)) ELSE s

\* str.strip()
Strip(s) == RStrip(LStrip(s))

\* str.startswith(p)
StartsWith(s, p) == Len(s) >= Len(p) /\ SubSeq(s, 1, Len(p)) = p

\* str.endswith(p)
EndsWith(s, p) == Len(s) >= Len(p) /\ SubSeq(s, Len(s) - Len(p) + 1, Len(s)) = p

\* str.replace(old, ""): every non-overlapping occurrence, left to right
RECURSIVE Remove(_, _)
Remove(s, old) ==
    IF s = <<>> THEN <<>>
    ELSE IF StartsWith(s, old) THEN Remove(SubSeq(s, Len(old) + 1, Len(s)), old)
    ELSE <<Head(s)>> \o Remove(Tail(s), old)

\* str.lstrip('.') as used on an extension
RECURSIVE LStripDots(_)
LStripDots(s) == IF s # <<>> /\ Head(s) = "." THEN LStripDots(Tail(s)) ELSE s

\* text.split(":", 1)[1]: what follows the first colon (the callers have
\* checked that there is one)
RECURSIVE AfterColon(_)
AfterColon(s) ==
    IF s = <<>> THEN <<>>
    ELSE IF Head(s) = ":" THEN Tail(s) ELSE AfterColon(Tail(s))

\* "\n".join(lines)
RECURSIVE JoinLines(_)
JoinLines(lines) ==
    IF lines = <<>> THEN <<>>
    ELSE IF Len(lines) = 1 THEN lines[1]
    ELSE lines[1] \o <<"\n">> \o JoinLines(Tail(lines))

Max(a, b) == IF a >= b THEN a ELSE b

\* the elements of a sequence
Range(s) == {s[i] : i \in DOMAIN s}

----------------------------------------------------------------------------
(* os.path *)

\* A path is a directory and a name in it; os.path.join(dir, name).
Path(d, n) == [dir |-> d, name |-> n]

\* os.path.basename
Basename(p) == p.name

\* index of the last "." of a name, 0 when there is none
LastDot(n) ==
    IF \E i \in DOMAIN n : n[i] = "."
    THEN CHOOSE i \in DOMAIN n : n[i] = "." /\ \A j \in DOMAIN n : n[j] = "." => j <= i
    ELSE 0

\* os.path.splitext(name): <<root, ext>>; a name whose last dot is preceded
\* by dots only has no extension
Splitext(n) ==
    LET d == LastDot(n) IN
    IF d > 0 /\ \E j \in 1..(d - 1) : n[j] # "."
    THEN <<SubSeq(n, 1, d - 1), SubSeq(n, d, Len(n))>>
    ELSE <<n, <<>>>>

----------------------------------------------------------------------------
(* Files and their encodings *)

\* A file is its content (characters, "\n" between lines), the encoding its
\* bytes were written in, and the label chardet reports for those bytes.
File(data, enc, chardet) == [data |-> data, enc |-> enc, chardet |-> chardet]

\* the codecs open() knows among the labels of the model
KnownCodecs == {"utf-8", "cp1251", "ascii"}

\* one character of a file written in fileEnc, decoded as enc with
\* errors='replace': a Cyrillic letter read under another encoding, and an
\* invalid byte under any, come out as other characters, never an error
DecodeChar(c, fileEnc, enc) ==
    IF c = "<ff>" THEN "<?>"
    ELSE IF c = "<ya>" /\ enc # fileEnc THEN "<?>"
    ELSE c

\* detect_encoding: chardet's label, MacCyrillic taken for cp1251
detect_encoding(file) ==
    LET encoding == file.chardet IN
    IF encoding # None /\ encoding \in {"MacCyrillic", "maccyrillic"}
    THEN "cp1251"
    ELSE encoding

\* universal newlines of text mode: "\r\n" and "\r" are read as "\n"
RECURSIVE TranslateNewlines(_)
TranslateNewlines(s) ==
    IF s = <<>> THEN <<>>
    ELSE IF Head(s) = "\r" /\ Len(s) >= 2 /\ s[2] = "\n"
         THEN <<"\n">> \o TranslateNewlines(SubSeq(s, 3, Len(s)))
    ELSE IF Head(s) = "\r" THEN <<"\n">> \o TranslateNewlines(Tail(s))
    ELSE <<Head(s)>> \o TranslateNewlines(Tail(s))

\* index of the first "\n" of s, 0 when there is none
FirstNewline(s) ==
    IF \E i \in DOMAIN s : s[i] = "\n"
    THEN CHOOSE i \in DOMAIN s : s[i] = "\n" /\ \A j \in 1..(i - 1) : s[j] # "\n"
    ELSE 0

\* "for line in f": the lines of a text, each with its terminator
RECURSIVE FileLines(_)
FileLines(s) ==
    IF s = <<>> THEN <<>>
    ELSE LET k == FirstNewline(s) IN
         IF k = 0 THEN <<s>>
         ELSE <<SubSeq(s, 1, k)>> \o FileLines(SubSeq(s, k + 1, Len(s)))

\* line.rstrip("\r\n")
RECURSIVE RStripNewline(_)
RStripNewline(s) ==
    IF s # <<>> /\ s[Len(s)] \in {"\r", "\n"}
    THEN RStripNewline(SubSeq(s, 1, Len(s) - 1))
    ELSE s

\* open(file_path, 'r', encoding=enc, errors='replace') and the list of
\* its lines without their terminators
ReadLines(file, enc) ==
    LET text  == [i \in DOMAIN file.data |-> DecodeChar(file.data[i], file.enc, enc)]
        lines == FileLines(TranslateNewlines(text))
    IN  [i \in DOMAIN lines |-> RStripNewline(lines[i])]

\* read_lines_auto: the forced encoding, else the detected one, else the
\* default; a codec open() does not know raises, and the file is read
\* again with the default encoding
read_lines_auto(file, default_encoding, force_encoding) ==
    LET encoding == IF force_encoding # None THEN force_encoding
                    ELSE IF detect_encoding(file) # None THEN detect_encoding(file)
                    ELSE default_encoding
    IN  IF encoding \in KnownCodecs
        THEN ReadLines(file, encoding)
        ELSE ReadLines(file, default_encoding)

\* Faulty variant of ReadOutcome: no except branch, the error of the first
\* open is raised to the caller.
ReadOutcome_NoRetry(files, path, default_encoding, force_encoding) ==
    LET file     == files[path]
        encoding == IF force_encoding # None THEN force_encoding
                    ELSE IF detect_encoding(file) # None THEN detect_encoding(file)
                    ELSE default_encoding
    IN  IF path \notin DOMAIN files
        THEN [exc |-> "FileNotFoundError", lines |-> <<>>,
              opens |-> IF force_encoding = None THEN 0 ELSE 1]
        ELSE IF encoding \in KnownCodecs
        THEN [exc |-> "none", opens |-> 1,
              lines |-> read_lines_auto(file, default_encoding, force_encoding)]
        ELSE [exc |-> "LookupError", lines |-> <<>>, opens |-> 1]

\* read_lines_auto called on a path: what it raises ("none" when it
\* returns), the lines it returns, and how many times it opened the file
\* in text mode.  A file that is not there fails the open of
\* detect_encoding, outside the try, when no encoding is forced; with a
\* forced encoding it fails the open inside the try and then the open of
\* the except branch, which nothing catches.  A codec open() does not
\* know is caught and the file read again with default_encoding; if that
\* is not a codec either, the second LookupError is raised to the caller.
ReadOutcome(files, path, default_encoding, force_encoding) ==
    LET Outcome(exc, lines, opens) == [exc |-> exc, lines |-> lines, opens |-> opens]
        file     == files[path]
        encoding == IF force_encoding # None THEN force_encoding
                    ELSE IF detect_encoding(file) # None THEN detect_encoding(file)
                    ELSE default_encoding
    IN  IF path \notin DOMAIN files
        THEN Outcome("FileNotFoundError", <<>>, IF force_encoding = None THEN 0 ELSE 2)
        ELSE IF encoding \in KnownCodecs
        THEN Outcome("none", read_lines_auto(file, default_encoding, force_encoding), 1)
        ELSE IF default_encoding \in KnownCodecs
        THEN Outcome("none", read_lines_auto(file, default_encoding, force_encoding), 2)
        ELSE Outcome("LookupError", <<>>, 2)

\* one character written with open(path, "w", encoding=enc, errors="replace"):
\* every character of the model encodes in utf-8 and in cp1251 except
\* "<?>" (U+FFFD), which cp1251 cannot encode and writes as "?"
EncodeChar(c, enc) == IF c = "<?>" /\ enc # "utf-8" THEN "?" ELSE c

\* a character outside ASCII
NonAscii(c) == c \in {"<ya>", "<ff>", "<?>"}

\* the file open(path, "w", encoding=enc, errors="replace").write(text) leaves
WrittenFile(text, enc) ==
    LET data == [i \in DOMAIN text |-> EncodeChar(text[i], enc)] IN
    File(data, enc,
         IF data = <<>> THEN None
         ELSE IF \A i \in DOMAIN data : ~NonAscii(data[i]) THEN "ascii"
         ELSE enc)

----------------------------------------------------------------------------
(* dict built from a list of paths, keyed by basename *)

\* the keys of {os.path.basename(p): p for p in paths}, in insertion order:
\* each basename once, at the place of its first occurrence
RECURSIVE MapKeys(_)
MapKeys(paths) ==
    IF paths = <<>> THEN <<>>
    ELSE LET front == MapKeys(SubSeq(paths, 1, Len(paths) - 1))
             name  == Basename(paths[Len(paths)])
         IN  IF name \in Range(front) THEN front ELSE Append(front, name)

\* Faulty variant of MapGet: the first path with this basename is kept.
MapGet_First(paths, name) ==
    paths[CHOOSE i \in DOMAIN paths :
              /\ Basename(paths[i]) = name
              /\ \A j \in DOMAIN paths : Basename(paths[j]) = name => i <= j]

\* the value of that dict at name: the last path with this basename
MapGet(paths, name) ==
    paths[CHOOSE i \in DOMAIN paths :
              /\ Basename(paths[i]) = name
              /\ \A j \in DOMAIN paths : Basename(paths[j]) = name => j <= i]

\* [x for x in seq if x in keep], order kept
RECURSIVE Filter(_, _)
Filter(seq, keep) ==
    IF seq = <<>> THEN <<>>
    ELSE IF Head(seq) \in keep THEN <<Head(seq)>> \o Filter(Tail(seq), keep)
    ELSE Filter(Tail(seq), keep)

\* the characters of file names, in code point order
CharOrder == <<" ", ".", "0", "1", "2", "3", "4", "5", "6", "7", "8", "9", ":">>
             \o UpperChars \o <<"_">> \o LowerChars

\* the rank of a character in that order
CodePoint(c) == CHOOSE i \in DOMAIN CharOrder : CharOrder[i] = c

\* names compare as Python compares str: by code point, a prefix first
RECURSIVE StrLess(_, _)
StrLess(a, b) ==
    IF a = <<>> THEN b # <<>>
    ELSE IF b = <<>> THEN FALSE
    ELSE IF Head(a) = Head(b) THEN StrLess(Tail(a), Tail(b))
    ELSE CodePoint(Head(a)) < CodePoint(Head(b))

\* sorted(set of names)
RECURSIVE Sorted(_)
Sorted(S) ==
    IF S = {} THEN <<>>
    ELSE LET m == CHOOSE x \in S : \A y \in S \ {x} : StrLess(x, y)
         IN  <<m>> \o Sorted(S \ {m})

----------------------------------------------------------------------------
(* The Word document: a sequence of tables, a table a sequence of rows, a  *)
(* row the texts of its cells and whether its first cell is set in bold    *)

Row(cells, bold) == [cells |-> cells, bold |-> bold]

\* "Тип файлов:"
TYPE_PREFIX == <<"T","i","p"," ","f","a","j","l","o","v",":">>

\* "Файл:"
FILE_PREFIX == <<"F","a","j","l",":">>

txt == <<"t","x","t">>
srt == <<"s","r","t">>

\* row.cells[0].text = f"Тип файлов: {file_extension}"; row.cells[1].text = ""
HeaderRow(file_extension) ==
    Row(<<TYPE_PREFIX \o <<" ">> \o file_extension, <<>>>>, FALSE)

\* the marker row of a file: f"Файл: {filename}" in bold, and ""
MarkerRow(filename) == Row(<<FILE_PREFIX \o <<" ">> \o filename, <<>>>>, TRUE)

\* Faulty variant of DataRows: the rows stop where the shorter side ends.
DataRows_Shorter(eng_lines, rus_lines) ==
    LET num_rows == IF Len(eng_lines) <= Len(rus_lines)
                    THEN Len(eng_lines) ELSE Len(rus_lines) IN
    [i \in 1..num_rows |-> Row(<<eng_lines[i], rus_lines[i]>>, FALSE)]

\* the data rows of a file: row i holds line i of each side, "" where a
\* side has no line i
DataRows(eng_lines, rus_lines) ==
    LET num_rows == Max(Len(eng_lines), Len(rus_lines)) IN
    [i \in 1..num_rows |->
        Row(<< IF i <= Len(eng_lines) THEN eng_lines[i] ELSE <<>>,
               IF i <= Len(rus_lines) THEN rus_lines[i] ELSE <<>> >>, FALSE)]

\* the two reads of one pass of the export loop: <<eng_lines, rus_lines>>
SectionLines(eng_file, rus_file, rus_force_encoding) ==
    << read_lines_auto(eng_file, "utf-8", None),
       read_lines_auto(rus_file, "cp1251", rus_force_encoding) >>

\* the rows one pass of the export loop appends: the marker row, then the
\* data rows
SectionRows(filename, lines) ==
    <<MarkerRow(filename)>> \o DataRows(lines[1], lines[2])

\* a logger.warning / logger.info record
LogRecord(level, what, names) == [level |-> level, what |-> what, names |-> names]

\* Faulty variant of PairWarnings: the files missing on the English side
\* are not reported.
PairWarnings_RusOnly(missing_rus, missing_eng) ==
    IF missing_rus # <<>> THEN <<LogRecord("warning", "missing_rus", missing_rus)>> ELSE <<>>

\* the two warnings of the pairing check, each only when its list is not empty
PairWarnings(missing_rus, missing_eng) ==
    (IF missing_rus # <<>> THEN <<LogRecord("warning", "missing_rus", missing_rus)>> ELSE <<>>)
    \o
    (IF missing_eng # <<>> THEN <<LogRecord("warning", "missing_eng", missing_eng)>> ELSE <<>>)

----------------------------------------------------------------------------
(* The files of the model *)

a_txt == <<"a",".","t","x","t">>
b_txt == <<"b",".","t","x","t">>
c_txt == <<"c",".","t","x","t">>
e_txt == <<"e",".","t","x","t">>
m_txt == <<"m",".","t","x","t">>
r_txt == <<"r",".","t","x","t">>
z_txt == <<"z",".","t","x","t">>
B_TXT == <<"B",".","T","X","T">>
n_md  == <<"n",".","m","d">>
s_srt == <<"s",".","s","r","t">>

\* The input files.  eng and rus are the two sides; mix holds both a .txt
\* and a .srt file, and its a.txt shares its basename with eng's; the
\* directory "empty" exists and holds nothing; "nodir" does not exist.
\* "<ff>" in rus/B.TXT is a byte that no encoding of the model decodes.
InputFiles ==
    (Path("eng", a_txt) :> File(<<"H","i","\n","Y","o","\n">>, "utf-8", "ascii")) @@
    (Path("rus", a_txt) :> File(<<"<ya>","\n">>, "cp1251", "cp1251")) @@
    (Path("eng", b_txt) :> File(<<>>, "utf-8", None)) @@
    (Path("rus", b_txt) :> File(<<>>, "cp1251", None)) @@
    (Path("eng", c_txt) :> File(<<" ","x">>, "utf-8", "ascii")) @@
    (Path("rus", c_txt) :> File(<<"<ya>","\n","\n","<ya>"," ","\n">>, "cp1251", "MacCyrillic")) @@
    (Path("eng", m_txt) :> File(<<"u","\n","F","a","j","l",":"," ","z","\n","v","\n">>, "utf-8", "ascii")) @@
    (Path("rus", m_txt) :> File(<<"<ya>","\n","<ya>","\n","<ya>","\n">>, "cp1251", "cp1251")) @@
    (Path("eng", e_txt) :> File(<<"e","\n">>, "utf-8", "ascii")) @@
    (Path("rus", r_txt) :> File(<<"<ya>","\n">>, "cp1251", "cp1251")) @@
    (Path("eng", B_TXT) :> File(<<"B","\n">>, "utf-8", "ascii")) @@
    (Path("rus", B_TXT) :> File(<<"<ya>","\n","<ff>","\n">>, "cp1251", "cp1251")) @@
    (Path("eng", n_md)  :> File(<<"n","\n">>, "utf-8", "ascii")) @@
    (Path("rus", n_md)  :> File(<<"n","\n">>, "utf-8", "ascii")) @@
    (Path("rus", s_srt) :> File(<<"1","\n","<ya>","\n">>, "utf-8", "utf-8")) @@
    (Path("mix", a_txt) :> File(<<"Z","z","\n">>, "utf-8", "ascii")) @@
    (Path("mix", s_srt) :> File(<<"1","\n","s","\n">>, "utf-8", "ascii"))

InputDirs == {"eng", "rus", "mix", "empty"}

----------------------------------------------------------------------------
(* The file system *)

\* os.path.exists(p) for the path of a file
Exists(p) == p \in DOMAIN fs

\* os.path.isdir(d)
IsDir(d) == d \in dirs

\* os.listdir(folder) restricted to plain files
FilesIn(folder) == {p.name : p \in {x \in DOMAIN fs : x.dir = folder}}

\* what a call remembers of the state it started in
Snapshot == [fs |-> fs, dirs |-> dirs, docs |-> docs]

\* a call begins: only when none is in progress
BeginCall ==
    /\ pc = "idle"
    /\ ncalls < MaxCalls
    /\ ncalls' = ncalls + 1
    /\ pre' = Snapshot
    /\ prev' = [call |-> call, result |-> result]

\* a call ends by raising: nothing of the call stays but what it logged
Raise(op, args, exception, logged) ==
    /\ pc' = "idle"
    /\ result' = exception
    /\ call' = [op |-> op, args |-> args]
    /\ log' = logged

----------------------------------------------------------------------------
(* export_paths_to_word *)

\* Faulty variant of PathExtensions: the extensions are compared as written.
PathExtensions_Cased(eng_paths) ==
    {Splitext(Basename(eng_paths[i]))[2] : i \in DOMAIN eng_paths}

\* {os.path.splitext(p)[1].lower() for p in eng_paths}
PathExtensions(eng_paths) ==
    {Lower(Splitext(Basename(eng_paths[i]))[2]) : i \in DOMAIN eng_paths}

\* the extension test of the explicit lists: exactly one, ".txt" or ".srt"
ExtensionsOk(extensions) ==
    /\ Cardinality(extensions) = 1
    /\ \A e \in extensions : e \in {<<".">> \o txt, <<".">> \o srt}

\* the locals of an export as its loop starts: the table holding the
\* header row, the pairs still to do, nothing done yet
ExportLocals(op, args, file_extension, paired, eng_map, rus_map) ==
    [op |-> op, args |-> args,
     table |-> <<HeaderRow(file_extension)>>,
     paired |-> paired, total |-> Len(paired), idx |-> 0,
     eng_map |-> eng_map, rus_map |-> rus_map,
     read |-> <<>>, progress |-> <<>>, skipped |-> {}]

\* Faulty variant of ProgressCall: done counted from 0.
ProgressCall_FromZero(done, total) == <<done - 1, total>>

\* progress(idx, total): the arguments the callback receives
ProgressCall(done, total) == <<done, total>>

\* the locals after one pass of the export loop that found both files: the
\* marker row and the data rows appended, then the callback called
ExportSection(c, filename, lines) ==
    [c EXCEPT !.idx = c.idx + 1,
              !.table = c.table \o SectionRows(filename, lines),
              !.read = (filename :> lines) @@ c.read,
              !.progress = Append(c.progress, ProgressCall(c.idx + 1, c.total))]

\* Faulty variant of PairedNames: the pairs are taken in the order of the
\* Russian list.
PairedNames_RusOrder(eng_keys, rus_keys) == Filter(rus_keys, Range(eng_keys))

\* line 116: [fn for fn in eng_map.keys() if fn in rus_map]
PairedNames(eng_keys, rus_keys) == Filter(eng_keys, Range(rus_keys))

\* lines 84-117: the checks, the pairing warnings, the header row
ExportPathsBegin(eng_paths, rus_paths, output_path, rus_force_encoding) ==
    LET op   == "export_paths_to_word"
        args == [eng_paths |-> eng_paths, rus_paths |-> rus_paths,
                 output_path |-> output_path,
                 rus_force_encoding |-> rus_force_encoding]
        eng_keys    == MapKeys(eng_paths)
        rus_keys    == MapKeys(rus_paths)
        missing_rus == Filter(eng_keys, Range(eng_keys) \ Range(rus_keys))
        missing_eng == Filter(rus_keys, Range(rus_keys) \ Range(eng_keys))
        warnings    == PairWarnings(missing_rus, missing_eng)
        extensions  == PathExtensions(eng_paths)
        paired      == PairedNames(eng_keys, rus_keys)
    IN
    /\ BeginCall
    /\ UNCHANGED <<fs, dirs, docs>>
    /\ IF eng_paths = <<>> \/ rus_paths = <<>>
       THEN Raise(op, args, "ValueError", <<>>)
       ELSE IF \E p \in Range(eng_paths \o rus_paths) : ~Exists(p)
       THEN Raise(op, args, "FileNotFoundError", <<>>)
       ELSE IF ~ExtensionsOk(extensions)
       THEN Raise(op, args, "ValueError", warnings)
       ELSE /\ pc' = "export_loop"
            /\ result' = "none"
            /\ log' = warnings
            /\ call' = ExportLocals(op, args,
                           LStripDots(CHOOSE e \in extensions : TRUE), paired,
                           [n \in Range(eng_keys) |-> MapGet(eng_paths, n)],
                           [n \in Range(rus_keys) |-> MapGet(rus_paths, n)])

\* lines 118-149: one pair read and appended to the table, then progress;
\* an exception of either read ends the call
ExportPathsIter ==
    /\ pc = "export_loop"
    /\ call.op = "export_paths_to_word"
    /\ call.idx < call.total
    /\ LET filename == call.paired[call.idx + 1]
           eng_path == call.eng_map[filename]
           rus_path == call.rus_map[filename]
           eng      == ReadOutcome(fs, eng_path, "utf-8", None)
           rus      == ReadOutcome(fs, rus_path, "cp1251", call.args.rus_force_encoding)
       IN  IF eng.exc # "none" THEN Raise(call.op, call.args, eng.exc, log)
           ELSE IF rus.exc # "none" THEN Raise(call.op, call.args, rus.exc, log)
           ELSE /\ call' = ExportSection(call, filename,
                               SectionLines(fs[eng_path], fs[rus_path],
                                            call.args.rus_force_encoding))
                /\ UNCHANGED <<log, pc, result>>
    /\ UNCHANGED <<fs, dirs, docs, pre, prev, ncalls>>

\* Faulty variant of LoopDone: the statement after the loop is reached
\* from inside it.
LoopDone_Early(c) == TRUE

\* the for loop over paired (lines 118, 198) has run out of pairs
LoopDone(c) == c.idx = c.total

\* lines 151-152 and 232-233: doc.save(output_path), the only write of an export
ExportSave ==
    /\ pc = "export_loop"
    /\ LoopDone(call)
    /\ docs' = (call.args.output_path :> <<call.table>>) @@ docs
    /\ log' = Append(log, LogRecord("info", "saved", <<>>))
    /\ pc' = "idle"
    /\ result' = "ok"
    /\ UNCHANGED <<fs, dirs, call, pre, prev, ncalls>>

----------------------------------------------------------------------------
(* export_to_word *)

\* lines 170-176: the extensions of the English folder's files that are
\* ".txt" or ".srt"
FolderExtensions(files_in_eng) ==
    {Lower(Splitext(f)[2]) : f \in files_in_eng} \cap {<<".">> \o txt, <<".">> \o srt}

\* Faulty variant of WithExtension: the names are compared as written.
WithExtension_Cased(files, file_extension) ==
    {f \in files : EndsWith(f, <<".">> \o file_extension)}

\* lines 178-179: {f for f in files if f.lower().endswith(f".{file_extension}")}
WithExtension(files, file_extension) ==
    {f \in files : EndsWith(Lower(f), <<".">> \o file_extension)}

\* lines 164-197: the folders checked, the extension found, the pairing
\* warnings, the header row
ExportFolderBegin(eng_folder, rus_folder, output_path, file_extension_arg, force) ==
    LET op   == "export_to_word"
        args == [eng_folder |-> eng_folder, rus_folder |-> rus_folder,
                 output_path |-> output_path,
                 file_extension |-> file_extension_arg,
                 rus_force_encoding |-> force]
        files_in_eng == FilesIn(eng_folder)
        files_in_rus == FilesIn(rus_folder)
        exts == FolderExtensions(files_in_eng)
        file_extension == IF file_extension_arg = NoneStr
                          THEN LStripDots(CHOOSE e \in exts : TRUE)
                          ELSE file_extension_arg
        eng_files   == WithExtension(files_in_eng, file_extension)
        rus_files   == WithExtension(files_in_rus, file_extension)
        missing_rus == Sorted(eng_files \ rus_files)
        missing_eng == Sorted(rus_files \ eng_files)
        paired      == Sorted(eng_files \cap rus_files)
    IN
    /\ BeginCall
    /\ UNCHANGED <<fs, dirs, docs>>
    /\ IF ~IsDir(eng_folder) \/ ~IsDir(rus_folder)
       THEN Raise(op, args, "FileNotFoundError", <<>>)
       ELSE IF file_extension_arg = NoneStr /\ Cardinality(exts) # 1
       THEN Raise(op, args, "ValueError", <<>>)
       ELSE /\ pc' = "export_loop"
            /\ result' = "none"
            /\ log' = PairWarnings(missing_rus, missing_eng)
            /\ call' = ExportLocals(op, args, file_extension, paired,
                           [n \in Range(paired) |-> Path(eng_folder, n)],
                           [n \in Range(paired) |-> Path(rus_folder, n)])

\* lines 198-230: one pair; a pair one of whose files is gone is skipped
\* with a warning, before the marker row and without a progress call
ExportFolderIter ==
    /\ pc = "export_loop"
    /\ call.op = "export_to_word"
    /\ call.idx < call.total
    /\ LET idx           == call.idx + 1
           filename      == call.paired[idx]
           eng_file_path == call.eng_map[filename]
           rus_file_path == call.rus_map[filename]
       IN  IF ~Exists(rus_file_path) \/ ~Exists(eng_file_path)
           THEN /\ log' = Append(log, LogRecord("warning", "missing_pair", <<filename>>))
                /\ call' = [call EXCEPT !.idx = idx, !.skipped = call.skipped \cup {idx}]
           ELSE /\ log' = log
                /\ call' = ExportSection(call, filename,
                               SectionLines(fs[eng_file_path], fs[rus_file_path],
                                            call.args.rus_force_encoding))
    /\ UNCHANGED <<fs, dirs, docs, pc, result, pre, prev, ncalls>>

----------------------------------------------------------------------------
(* import_from_word *)

Digits == <<"0", "1", "2", "3", "4", "5", "6", "7", "8", "9">>

\* str(i) for a natural number
RECURSIVE IntStr(_)
IntStr(i) ==
    IF i < 10 THEN <<Digits[i + 1]>>
    ELSE IntStr(i \div 10) \o <<Digits[(i % 10) + 1]>>

\* the loop of _unique_path: the first f"{base}_{i}{ext}" that is free
RECURSIVE UniqueFrom(_, _, _, _)
UniqueFrom(path, i, files, split) ==
    LET cand == Path(path.dir, split[1] \o <<"_">> \o IntStr(i) \o split[2]) IN
    IF cand \notin files THEN cand ELSE UniqueFrom(path, i + 1, files, split)

\* Faulty variant of _unique_path: the path is returned as it is, taken or not.
unique_path_same(path, files) == path

\* _unique_path, in a file system holding the paths `files`
_unique_path(path, files) ==
    IF path \notin files THEN path
    ELSE UniqueFrom(path, 1, files, Splitext(path.name))

\* lines 258-262: the declared format, read from the first table whose
\* first row starts with the type prefix; "txt" when there is none
RECURSIVE FileFormat(_)
FileFormat(tables) ==
    IF tables = <<>> THEN txt
    ELSE LET table == Head(tables) IN
         IF table # <<>> /\ table[1].cells # <<>>
            /\ StartsWith(table[1].cells[1], TYPE_PREFIX)
         THEN Lower(Strip(AfterColon(table[1].cells[1])))
         ELSE FileFormat(Tail(tables))

\* line 263
DeclaredExt(doc) == IF FileFormat(doc) = srt THEN srt ELSE txt

\* Faulty variant of RusWriteEncoding: cp1251 for every format.
RusWriteEncoding_Legacy(ext) == "cp1251"

\* line 264
RusWriteEncoding(ext) == IF ext = srt THEN "utf-8" ELSE "cp1251"

\* file_data as the scan starts: no key, no current file
EmptyFileData == [keys |-> <<>>, data |-> <<>>, current |-> <<>>]

\* Faulty variant of ScanRow: a marker row is known by its bold type.
ScanRow_Bold(st, idx, row) ==
    LET first  == Strip(row.cells[1])
        second == IF Len(row.cells) > 1 THEN Strip(row.cells[2]) ELSE <<>>
    IN
    IF idx = 0 /\ StartsWith(first, TYPE_PREFIX) THEN st
    ELSE IF row.bold
    THEN LET current_filename == Strip(Remove(first, FILE_PREFIX)) IN
         [keys |-> IF current_filename \in Range(st.keys) THEN st.keys
                   ELSE Append(st.keys, current_filename),
          data |-> (current_filename :> <<<<>>, <<>>>>) @@ st.data,
          current |-> current_filename]
    ELSE IF st.current # <<>>
    THEN [st EXCEPT !.data[st.current] =
                        <<Append(@[1], first), Append(@[2], second)>>]
    ELSE st

\* lines 273-289 for one row: the header row skipped, a marker row opens
\* (or empties) its file's entry, any other row is appended to the
\* current file, if there is one ("if current_filename" is false of None
\* and of "" alike: current = "" stands for both)
ScanRow(st, idx, row) ==
    LET first  == Strip(row.cells[1])
        second == IF Len(row.cells) > 1 THEN Strip(row.cells[2]) ELSE <<>>
    IN
    IF idx = 0 /\ StartsWith(first, TYPE_PREFIX) THEN st
    ELSE IF StartsWith(first, FILE_PREFIX)
    THEN LET current_filename == Strip(Remove(first, FILE_PREFIX)) IN
         [keys |-> IF current_filename \in Range(st.keys) THEN st.keys
                   ELSE Append(st.keys, current_filename),
          data |-> (current_filename :> <<<<>>, <<>>>>) @@ st.data,
          current |-> current_filename]
    ELSE IF st.current # <<>>
    THEN [st EXCEPT !.data[st.current] =
                        <<Append(@[1], first), Append(@[2], second)>>]
    ELSE st

\* lines 272-289: the rows of one table, idx counted from 0
RECURSIVE ScanRows(_, _, _)
ScanRows(st, rows, idx) ==
    IF idx >= Len(rows) THEN st
    ELSE ScanRows(ScanRow(st, idx, rows[idx + 1]), rows, idx + 1)

\* lines 271-289: every table of the document, in order
RECURSIVE ScanTables(_, _)
ScanTables(st, tables) ==
    IF tables = <<>> THEN st
    ELSE ScanTables(ScanRows(st, Head(tables), 0), Tail(tables))

\* Faulty variant of FilenameWithExt: the extension is looked for as written.
FilenameWithExt_Cased(filename, ext) ==
    IF EndsWith(filename, <<".">> \o ext) THEN filename
    ELSE filename \o <<".">> \o ext

\* lines 295-297
FilenameWithExt(filename, ext) ==
    IF EndsWith(Lower(filename), <<".">> \o ext) THEN filename
    ELSE filename \o <<".">> \o ext

\* Faulty variant of ImportDirs: the output folders are made before the
\* document is looked for.
ImportDirs_First(found, eng_output_folder, rus_output_folder) ==
    dirs \cup {eng_output_folder, rus_output_folder}

\* lines 250-253: the directories after the check of word_path; the two
\* output folders are made only when the document is there
ImportDirs(found, eng_output_folder, rus_output_folder) ==
    IF found THEN dirs \cup {eng_output_folder, rus_output_folder} ELSE dirs

\* lines 250-293: the document checked and opened, the output folders
\* made, the format and the sections read
ImportBegin(word_path, eng_output_folder, rus_output_folder, overwrite) ==
    LET op   == "import_from_word"
        args == [word_path |-> word_path,
                 eng_output_folder |-> eng_output_folder,
                 rus_output_folder |-> rus_output_folder,
                 overwrite |-> overwrite]
    IN
    /\ BeginCall
    /\ UNCHANGED <<fs, docs>>
    /\ dirs' = ImportDirs(word_path \in DOMAIN docs, eng_output_folder, rus_output_folder)
    /\ IF word_path \notin DOMAIN docs
       THEN Raise(op, args, "FileNotFoundError", <<>>)
       ELSE LET doc       == docs[word_path]
                ext       == DeclaredExt(doc)
                file_data == ScanTables(EmptyFileData, doc)
            IN  /\ pc' = "import_loop"
                /\ result' = "none"
                /\ log' = <<>>
                /\ call' = [op |-> op, args |-> args, ext |-> ext,
                            rus_write_encoding |-> RusWriteEncoding(ext),
                            items |-> [i \in DOMAIN file_data.keys |->
                                         <<file_data.keys[i],
                                           file_data.data[file_data.keys[i]]>>],
                            total |-> Len(file_data.keys), idx |-> 0,
                            written |-> <<>>, progress |-> <<>>]

\* one open(path, "w", ...).write(...) of the import loop: which side, for
\* which item, where, and the file it left
Written(side, i, path, file) == [side |-> side, item |-> i, path |-> path, file |-> file]

\* lines 294-312: the two files of one section written, then progress
ImportIter ==
    /\ pc = "import_loop"
    /\ call.idx < call.total
    /\ LET i         == call.idx + 1
           filename  == call.items[i][1]
           eng_lines == call.items[i][2][1]
           rus_lines == call.items[i][2][2]
           filename_with_ext == FilenameWithExt(filename, call.ext)
           eng_path0 == Path(call.args.eng_output_folder, filename_with_ext)
           rus_path0 == Path(call.args.rus_output_folder, filename_with_ext)
           eng_file_path == IF ~call.args.overwrite
                            THEN _unique_path(eng_path0, DOMAIN fs) ELSE eng_path0
           rus_file_path == IF ~call.args.overwrite
                            THEN _unique_path(rus_path0, DOMAIN fs) ELSE rus_path0
           eng_file == WrittenFile(JoinLines(eng_lines), "utf-8")
           rus_file == WrittenFile(JoinLines(rus_lines), call.rus_write_encoding)
       IN  /\ fs' = (rus_file_path :> rus_file) @@ (eng_file_path :> eng_file) @@ fs
           /\ call' = [call EXCEPT
                         !.idx = i,
                         !.written = @ \o <<Written("eng", i, eng_file_path, eng_file),
                                            Written("rus", i, rus_file_path, rus_file)>>,
                         !.progress = Append(@, ProgressCall(i, call.total))]
    /\ UNCHANGED <<dirs, docs, log, pc, result, pre, prev, ncalls>>

\* line 314: the import returns
ImportEnd ==
    /\ pc = "import_loop"
    /\ call.idx = call.total
    /\ log' = Append(log, LogRecord("info", "finished", <<>>))
    /\ pc' = "idle"
    /\ result' = "ok"
    /\ UNCHANGED <<fs, dirs, docs, call, pre, prev, ncalls>>

----------------------------------------------------------------------------
(* The calls of the model *)

\* documents that were not made by an export
NoTableDoc == <<>>
PlainTableDoc == << << Row(<< <<"x">>, <<"y">> >>, FALSE) >> >>
UpperSrtDoc ==
    << << Row(<<TYPE_PREFIX \o <<" ","S","R","T">>, <<>>>>, FALSE),
          MarkerRow(<<"k">>),
          Row(<< <<"1">>, <<"<ya>">> >>, FALSE) >> >>
NoHeaderDoc == << << MarkerRow(a_txt), Row(<< <<"q">>, <<"<ya>">> >>, FALSE) >> >>

\* a table whose second marker row holds the prefix and no name, and
\* whose third names the file of the first again
AnonDoc ==
    << << HeaderRow(txt),
          MarkerRow(a_txt),
          Row(<< <<"q">>, <<"<ya>">> >>, FALSE),
          Row(<<FILE_PREFIX, <<>>>>, TRUE),
          Row(<< <<"w">>, <<"<ya>">> >>, FALSE),
          MarkerRow(a_txt),
          Row(<< <<"v">>, <<"<ya>">> >>, FALSE) >> >>

\* a table with the sections "k" and "k.txt"
TwinsDoc ==
    << << HeaderRow(txt),
          MarkerRow(<<"k">>),
          Row(<< <<"1">>, <<"<ya>">> >>, FALSE),
          MarkerRow(<<"k", ".", "t", "x", "t">>),
          Row(<< <<"2">>, <<"<ya>">> >>, FALSE) >> >>

\* two tables, the second without a header row or a marker row
TwoTablesDoc ==
    << << HeaderRow(txt),
          MarkerRow(a_txt),
          Row(<< <<"q">>, <<"<ya>">> >>, FALSE) >>,
       << Row(<< <<"w">>, <<"<ya>">> >>, FALSE) >> >>

HandDocs ==
    ("notable.docx" :> NoTableDoc) @@ ("plain.docx" :> PlainTableDoc) @@
    ("upper.docx" :> UpperSrtDoc) @@ ("nohdr.docx" :> NoHeaderDoc) @@
    ("anon.docx" :> AnonDoc) @@ ("twins.docx" :> TwinsDoc) @@
    ("two.docx" :> TwoTablesDoc)

\* the argument lists of export_paths_to_word
PathsCalls ==
    { <<  <<Path("eng", a_txt), Path("eng", c_txt)>>,
          <<Path("rus", c_txt), Path("rus", a_txt)>>  >>,
      <<  <<Path("eng", e_txt), Path("eng", a_txt)>>,
          <<Path("rus", a_txt), Path("rus", r_txt)>>  >>,
      <<  <<Path("eng", a_txt), Path("mix", a_txt)>>,
          <<Path("rus", a_txt)>>  >>,
      <<  <<Path("eng", a_txt), Path("eng", c_txt), Path("mix", a_txt)>>,
          <<Path("rus", c_txt), Path("rus", a_txt)>>  >>,
      <<  <<Path("eng", a_txt)>>,
          <<Path("rus", a_txt), Path("mix", a_txt)>>  >>,
      <<  <<Path("eng", a_txt), Path("eng", n_md)>>,
          <<Path("rus", a_txt), Path("rus", n_md)>>  >>,
      <<  <<Path("eng", n_md)>>, <<Path("rus", n_md)>>  >>,
      <<  <<>>, <<Path("rus", a_txt)>>  >>,
      <<  <<Path("eng", a_txt)>>, <<>>  >>,
      <<  <<Path("eng", a_txt), Path("eng", z_txt)>>,
          <<Path("rus", a_txt)>>  >>,
      <<  <<Path("eng", B_TXT), Path("eng", b_txt)>>,
          <<Path("rus", B_TXT), Path("rus", b_txt)>>  >>,
      <<  <<Path("mix", s_srt)>>, <<Path("rus", s_srt)>>  >>,
      <<  <<Path("eng", m_txt)>>, <<Path("rus", m_txt)>>  >> }

\* the folders and the extension of export_to_word
FolderCalls ==
    { <<"eng", "rus", NoneStr>>,
      <<"mix", "rus", NoneStr>>,
      <<"mix", "rus", srt>>,
      <<"eng", "mix", txt>>,
      <<"empty", "rus", NoneStr>>,
      <<"empty", "rus", txt>>,
      <<"eng", "empty", NoneStr>>,
      <<"rus", "eng", <<"T","X","T">> >>,
      <<"nodir", "rus", NoneStr>>,
      <<"eng", "nodir", txt>> }

\* the document, the output folders and the overwrite flag of import_from_word
ImportCalls ==
    ({"out.docx"} \X {<<"outA", "outB">>, <<"outA", "outA">>} \X BOOLEAN)
    \cup ({"notable.docx", "plain.docx", "upper.docx", "nohdr.docx", "anon.docx",
            "two.docx", "missing.docx"}
            \X {<<"outA", "outB">>} \X {FALSE})
    \cup {<<"upper.docx", <<"outA", "outA">>, FALSE>>,
          <<"twins.docx", <<"outA", "outB">>, FALSE>>,
          <<"twins.docx", <<"outA", "outB">>, TRUE>>}

Init ==
    /\ fs = InputFiles
    /\ dirs = InputDirs
    /\ docs = HandDocs
    /\ log = <<>>
    /\ pc = "idle"
    /\ call = [op |-> "none"]
    /\ result = "none"
    /\ pre = [fs |-> InputFiles, dirs |-> InputDirs, docs |-> HandDocs]
    /\ prev = [call |-> [op |-> "none"], result |-> "none"]
    /\ ncalls = 0

CallExportPaths ==
    \E c \in PathsCalls : ExportPathsBegin(c[1], c[2], "out.docx", None)

CallExportFolder ==
    \E c \in FolderCalls : ExportFolderBegin(c[1], c[2], "out.docx", c[3], None)

CallImport ==
    \E c \in ImportCalls : ImportBegin(c[1], c[2][1], c[2][2], c[3])

Next ==
    \/ CallExportPaths
    \/ ExportPathsIter
    \/ CallExportFolder
    \/ ExportFolderIter
    \/ ExportSave
    \/ CallImport
    \/ ImportIter
    \/ ImportEnd

Spec == Init /\ [][Next]_vars

----------------------------------------------------------------------------
(* The calls in an environment that interferes: an input file of a pair    *)
(* not yet read vanishes while the export is in its loop, and the progress *)
(* callback of an export may raise                                         *)

\* the Russian file of the next pair is removed by another process
EnvRemove ==
    /\ pc = "export_loop"
    /\ call.idx < call.total
    /\ Cardinality(DOMAIN InputFiles \ DOMAIN fs) < MaxRemoved
    /\ LET victim == call.rus_map[call.paired[call.idx + 1]] IN
           /\ victim \in DOMAIN fs
           /\ fs' = [p \in DOMAIN fs \ {victim} |-> fs[p]]
    /\ UNCHANGED <<dirs, docs, log, pc, call, result, pre, prev, ncalls>>

\* lines 118-149 and 198-230 when progress(idx, total) raises: the pair
\* was read and appended, the exception of the callback ends the call
ExportProgressRaises ==
    /\ pc = "export_loop"
    /\ call.idx < call.total
    /\ LET filename == call.paired[call.idx + 1]
           eng_path == call.eng_map[filename]
           rus_path == call.rus_map[filename]
       IN  /\ Exists(eng_path)
           /\ Exists(rus_path)
           /\ call' = ExportSection(call, filename,
                          SectionLines(fs[eng_path], fs[rus_path],
                                       call.args.rus_force_encoding))
    /\ pc' = "idle"
    /\ result' = "CallbackError"
    /\ UNCHANGED <<fs, dirs, docs, log, pre, prev, ncalls>>

\* the calls made in that environment
FaultPathsCalls ==
    { <<  <<Path("eng", a_txt), Path("eng", c_txt)>>,
          <<Path("rus", c_txt), Path("rus", a_txt)>>  >>,
      <<  <<Path("eng", a_txt), Path("eng", n_md)>>,
          <<Path("rus", a_txt), Path("rus", n_md)>>  >>,
      <<  <<Path("eng", a_txt), Path("eng", z_txt)>>,
          <<Path("rus", a_txt)>>  >> }

FaultFolderCalls ==
    { <<"eng", "rus", NoneStr>>,
      <<"mix", "rus", srt>>,
      <<"nodir", "rus", NoneStr>> }

FaultImportCalls ==
    {"out.docx", "missing.docx"} \X {<<"outA", "outB">>} \X {FALSE}

CallExportPathsFaults ==
    \E c \in FaultPathsCalls : ExportPathsBegin(c[1], c[2], "out.docx", None)

CallExportFolderFaults ==
    \E c \in FaultFolderCalls : ExportFolderBegin(c[1], c[2], "out.docx", c[3], None)

CallImportFaults ==
    \E c \in FaultImportCalls : ImportBegin(c[1], c[2][1], c[2][2], c[3])

NextFaults ==
    \/ CallExportPathsFaults
    \/ ExportPathsIter
    \/ CallExportFolderFaults
    \/ ExportFolderIter
    \/ ExportSave
    \/ CallImportFaults
    \/ ImportIter
    \/ ImportEnd
    \/ EnvRemove
    \/ ExportProgressRaises

SpecFaults == Init /\ [][NextFaults]_vars

----------------------------------------------------------------------------
(* read_lines_auto called on its own *)

\* the paths read: plain text, Cyrillic text labelled cp1251 and
\* MacCyrillic, an empty file, a file with an undecodable byte, a file
\* that is not there
ReaderPaths ==
    {Path("eng", a_txt), Path("rus", a_txt), Path("rus", c_txt),
     Path("rus", b_txt), Path("rus", B_TXT), Path("eng", z_txt)}

\* the encodings passed; "bogus" is no codec
ReaderEncodings == {"utf-8", "cp1251", "bogus"}

\* read_lines_auto(file_path, default_encoding, force_encoding): the call
\* returns its lines or raises; logger.error tells of a failed first read
CallReadLines ==
    \E file_path \in ReaderPaths :
    \E default_encoding \in ReaderEncodings :
    \E force_encoding \in ReaderEncodings \cup {None} :
        LET outcome == ReadOutcome(fs, file_path, default_encoding, force_encoding) IN
        /\ BeginCall
        /\ call' = [op |-> "read_lines_auto",
                    args |-> [file_path |-> file_path,
                              default_encoding |-> default_encoding,
                              force_encoding |-> force_encoding],
                    outcome |-> outcome]
        /\ result' = IF outcome.exc = "none" THEN "ok" ELSE outcome.exc
        /\ log' = IF outcome.opens = 2
                  THEN <<LogRecord("error", "failed_reading", <<file_path.name>>)>>
                  ELSE <<>>
        /\ pc' = "idle"
        /\ UNCHANGED <<fs, dirs, docs>>

NextReader == CallReadLines

SpecReader == Init /\ [][NextReader]_vars

----------------------------------------------------------------------------
(* What the properties below speak of *)

ExportOps == {"export_paths_to_word", "export_to_word"}

\* the last call has returned or raised
Ended == pc = "idle" /\ result # "none"

\* an import has read the document that the call before it exported
ImportOfExport ==
    /\ call.op = "import_from_word"
    /\ pc = "import_loop"
    /\ prev.call.op \in ExportOps
    /\ prev.result = "ok"
    /\ call.args.word_path = prev.call.args.output_path

\* the lines the export read for a paired basename, and their counts
OrigEng(name) == prev.call.read[name][1]
OrigRus(name) == prev.call.read[name][2]
MaxLines(name) == Max(Len(OrigEng(name)), Len(OrigRus(name)))

\* line k of a file, "" where the file has no line k
LineOrEmpty(lines, k) == IF k <= Len(lines) THEN lines[k] ELSE <<>>

\* the items of the import's file_data recovered under a basename
ItemsNamed(name) == {i \in DOMAIN call.items : call.items[i][1] = name}
RecEng(i) == call.items[i][2][1]
RecRus(i) == call.items[i][2][2]

\* the rows of the exported table that are the marker row of a basename
MarkerRowsOf(table, name) == {r \in DOMAIN table : table[r] = MarkerRow(name)}

\* the larger of two numbers
MaxOf(a, b) == IF a < b THEN b ELSE a

----------------------------------------------------------------------------
(* C1 and C2: the round trip *)

\* C1: after an export and an import of its document, every paired
\* basename is recovered with exactly max(n_a, n_b) lines on each side, and
\* the lines beyond a side's original length are empty strings.
C1_RoundTrip ==
    ImportOfExport =>
        \A name \in Range(prev.call.paired) :
            \E i \in ItemsNamed(name) :
                /\ Len(RecEng(i)) = MaxLines(name)
                /\ Len(RecRus(i)) = MaxLines(name)
                /\ \A k \in (Len(OrigEng(name)) + 1)..MaxLines(name) : RecEng(i)[k] = <<>>
                /\ \A k \in (Len(OrigRus(name)) + 1)..MaxLines(name) : RecRus(i)[k] = <<>>

\* C2: every recovered basename has as many side-A as side-B lines, and for
\* a paired basename line k of each side, for every k up to max(n_a, n_b),
\* is the text of the k-th row after the basename's marker row, a row that
\* holds line k of the original side-A file and line k of the original
\* side-B file ("" where there is none).
C2_PositionalAlignment ==
    ImportOfExport =>
        /\ \A i \in DOMAIN call.items : Len(RecEng(i)) = Len(RecRus(i))
        /\ \A name \in Range(prev.call.paired) :
               \E i \in ItemsNamed(name) :
               \E m \in MarkerRowsOf(prev.call.table, name) :
                   \A k \in 1..MaxLines(name) :
                       /\ k <= Len(RecEng(i))
                       /\ m + k <= Len(prev.call.table)
                       /\ prev.call.table[m + k].cells =
                              <<LineOrEmpty(OrigEng(name), k), LineOrEmpty(OrigRus(name), k)>>
                       /\ RecEng(i)[k] = Strip(prev.call.table[m + k].cells[1])
                       /\ RecRus(i)[k] = Strip(prev.call.table[m + k].cells[2])

----------------------------------------------------------------------------
(* C3: pairing completeness *)

\* the names of the plain files of a folder in a file system
NamesIn(files, folder) == {p.name : p \in {x \in DOMAIN files : x.dir = folder}}

\* the extension an export declared in its header row
HeaderExt(table) == SubSeq(table[1].cells[1], Len(TYPE_PREFIX) + 2, Len(table[1].cells[1]))

\* the two input collections of the export in `call`, as sets of basenames:
\* the basenames of the path lists, or the files of the folders that carry
\* the export's extension
SideA ==
    IF call.op = "export_paths_to_word"
    THEN {call.args.eng_paths[i].name : i \in DOMAIN call.args.eng_paths}
    ELSE {f \in NamesIn(pre.fs, call.args.eng_folder) :
             EndsWith(Lower(f), <<".">> \o HeaderExt(call.table))}
SideB ==
    IF call.op = "export_paths_to_word"
    THEN {call.args.rus_paths[i].name : i \in DOMAIN call.args.rus_paths}
    ELSE {f \in NamesIn(pre.fs, call.args.rus_folder) :
             EndsWith(Lower(f), <<".">> \o HeaderExt(call.table))}

\* a warning of the given kind names the basename
Warned(what, name) ==
    \E k \in DOMAIN log :
        log[k].level = "warning" /\ log[k].what = what /\ name \in Range(log[k].names)

\* the export in `call` has saved its document
ExportDone == call.op \in ExportOps /\ Ended /\ result = "ok"

\* the table the export in `call` saved
SavedTable == docs[call.args.output_path][1]

\* the explicit lists pass the checks of lines 84-89
ListsPresent ==
    /\ call.args.eng_paths # <<>>
    /\ call.args.rus_paths # <<>>
    /\ \A p \in Range(call.args.eng_paths \o call.args.rus_paths) : p \in DOMAIN pre.fs

\* the extensions of {txt, srt} that every side-A path carries, case ignored
SharedExts ==
    {e \in {txt, srt} :
        \A i \in DOMAIN call.args.eng_paths :
            Lower(Splitext(call.args.eng_paths[i].name)[2]) = <<".">> \o e}

\* the extensions of {txt, srt} found among the files of the side-A folder
FoundExts ==
    {e \in {txt, srt} :
        \E f \in NamesIn(pre.fs, call.args.eng_folder) :
            Lower(Splitext(f)[2]) = <<".">> \o e}

\* both folders of a folder-mode export exist
FoldersPresent ==
    call.args.eng_folder \in pre.dirs /\ call.args.rus_folder \in pre.dirs

\* the inputs of the export in `call` pass every validation
ValidInputs ==
    IF call.op = "export_paths_to_word"
    THEN ListsPresent /\ SharedExts # {}
    ELSE FoldersPresent
         /\ (call.args.file_extension = NoneStr => Cardinality(FoundExts) = 1)

\* C3: a finished export holds exactly one marker row for every basename
\* of both sides and none for a basename of one side only, which is named
\* in a warning; and an export whose inputs are valid finishes, whatever
\* basenames are unmatched.
C3_PairingCompleteness ==
    /\ ExportDone =>
          /\ \A n \in SideA \cap SideB : Cardinality(MarkerRowsOf(SavedTable, n)) = 1
          /\ \A n \in SideA \ SideB :
                 MarkerRowsOf(SavedTable, n) = {} /\ Warned("missing_rus", n)
          /\ \A n \in SideB \ SideA :
                 MarkerRowsOf(SavedTable, n) = {} /\ Warned("missing_eng", n)
    /\ (call.op \in ExportOps /\ Ended /\ ValidInputs) => result = "ok"

\* an export finished with basenames on both sides, on side A only and on
\* side B only
C3_Witness ==
    /\ ExportDone
    /\ SideA \cap SideB # {}
    /\ SideA \ SideB # {}
    /\ SideB \ SideA # {}

----------------------------------------------------------------------------
(* C4: no-clobber *)

\* the import in `call` got as far as its loop
ImportRunning ==
    /\ call.op = "import_from_word"
    /\ (pc = "import_loop" \/ (Ended /\ result = "ok"))

\* the import in `call` has returned
ImportDone == call.op = "import_from_word" /\ Ended /\ result = "ok"

\* the import in `call` repeats the one before it: same document, same
\* folders, overwrite off
SecondImport ==
    /\ ImportDone
    /\ ~call.args.overwrite
    /\ prev.call.op = "import_from_word"
    /\ prev.result = "ok"
    /\ prev.call.args = call.args

\* the paths a sequence of writes went to
PathsOf(written) == {written[k].path : k \in DOMAIN written}

\* the file the last write to a path left
LastWritten(written, path) ==
    written[CHOOSE k \in DOMAIN written :
                /\ written[k].path = path
                /\ \A j \in DOMAIN written : written[j].path = path => j <= k].file

\* name is base with _1, _2, ... put before its extension
Suffixed(name, base) ==
    \E k \in 1..(Cardinality(DOMAIN fs) + 1) :
        name = Splitext(base)[1] \o <<"_">> \o IntStr(k) \o Splitext(base)[2]

\* C4: an import with overwrite off leaves every file that existed before
\* the call as it was; after the same import is made twice, the files of
\* the first are as the first left them and every file of the second has a
\* name of its own, the intended name with _1, _2, ... before the extension.
C4_NoClobber ==
    /\ (ImportRunning /\ ~call.args.overwrite) =>
           \A p \in DOMAIN pre.fs : p \in DOMAIN fs /\ fs[p] = pre.fs[p]
    /\ SecondImport =>
           /\ \A p \in PathsOf(prev.call.written) :
                  p \in DOMAIN fs /\ fs[p] = LastWritten(prev.call.written, p)
           /\ \A k \in DOMAIN call.written :
                  /\ call.written[k].path \notin PathsOf(prev.call.written)
                  /\ Suffixed(call.written[k].path.name,
                              FilenameWithExt(call.items[call.written[k].item][1], call.ext))

\* the same import was made twice and wrote files both times
C4_Witness == SecondImport /\ call.written # <<>>

----------------------------------------------------------------------------
(* C5: the encoding of the written files *)

\* the tables of a document whose first row starts with the type prefix
TypedTables(doc) ==
    {t \in DOMAIN doc :
        doc[t] # <<>> /\ doc[t][1].cells # <<>> /\ StartsWith(doc[t][1].cells[1], TYPE_PREFIX)}

\* the type a document declares is "srt": what follows the prefix in the
\* first such row, trimmed and in lower case
DeclaresSrt(doc) ==
    /\ TypedTables(doc) # {}
    /\ LET t    == CHOOSE x \in TypedTables(doc) : \A y \in TypedTables(doc) : x <= y
           text == doc[t][1].cells[1]
       IN  Lower(Strip(SubSeq(text, Len(TYPE_PREFIX) + 1, Len(text)))) = srt

\* C5: every side-B file an import writes is encoded in utf-8 when the
\* document declares "srt" and in cp1251 otherwise (no header included);
\* every side-A file is encoded in utf-8.
C5_OutputEncoding ==
    ImportRunning =>
        \A k \in DOMAIN call.written :
            LET w == call.written[k] IN
            /\ w.side = "eng" => w.file.enc = "utf-8"
            /\ w.side = "rus" =>
                   w.file.enc = IF DeclaresSrt(pre.docs[call.args.word_path])
                                THEN "utf-8" ELSE "cp1251"

\* an import of a document declaring "srt" wrote a side-B file
C5_Witness ==
    /\ ImportRunning
    /\ DeclaresSrt(pre.docs[call.args.word_path])
    /\ \E k \in DOMAIN call.written : call.written[k].side = "rus"

----------------------------------------------------------------------------
(* C6: fatal errors come before side effects *)

Errors == {"FileNotFoundError", "ValueError"}

\* nothing on disk differs from what the call found
Untouched == fs = pre.fs /\ dirs = pre.dirs /\ docs = pre.docs

\* C6: a call that raised has changed no file, directory or document; an
\* export raises FileNotFoundError for a missing path or folder and
\* ValueError for an ambiguous or unsupported extension, an import raises
\* FileNotFoundError for a missing document.
C6_ErrorsBeforeEffects ==
    /\ (Ended /\ result \in Errors) => Untouched
    /\ (call.op = "export_paths_to_word"
          /\ call.args.eng_paths # <<>> /\ call.args.rus_paths # <<>>
          /\ ~ListsPresent)
       => (Ended /\ result = "FileNotFoundError")
    /\ (call.op = "export_paths_to_word" /\ ListsPresent /\ SharedExts = {})
       => (Ended /\ result = "ValueError")
    /\ (call.op = "export_to_word" /\ ~FoldersPresent)
       => (Ended /\ result = "FileNotFoundError")
    /\ (call.op = "export_to_word" /\ FoldersPresent
          /\ call.args.file_extension = NoneStr /\ Cardinality(FoundExts) # 1)
       => (Ended /\ result = "ValueError")
    /\ (call.op = "import_from_word" /\ call.args.word_path \notin DOMAIN pre.docs)
       => (Ended /\ result = "FileNotFoundError")

\* an import of a missing document raised while an output folder was absent
C6_Witness ==
    /\ call.op = "import_from_word"
    /\ Ended
    /\ result = "FileNotFoundError"
    /\ call.args.eng_output_folder \notin dirs

----------------------------------------------------------------------------
(* C7: empty input sets *)

\* the files a folder contributes to an export: those carrying the given
\* extension, or a supported one when none is given
Contributed(folder, file_extension) ==
    {f \in NamesIn(pre.fs, folder) :
        IF file_extension = NoneStr
        THEN EndsWith(Lower(f), <<".">> \o txt) \/ EndsWith(Lower(f), <<".">> \o srt)
        ELSE EndsWith(Lower(f), <<".">> \o file_extension)}

\* one side of the export in `call` contributes no input file
EmptySide ==
    IF call.op = "export_paths_to_word"
    THEN call.args.eng_paths = <<>> \/ call.args.rus_paths = <<>>
    ELSE /\ FoldersPresent
         /\ \/ Contributed(call.args.eng_folder, call.args.file_extension) = {}
            \/ Contributed(call.args.rus_folder, call.args.file_extension) = {}

\* C7: an export one of whose sides contributes no input file raises
\* ValueError and writes no document.
C7_EmptyInputIsError ==
    (call.op \in ExportOps /\ Ended /\ EmptySide) =>
        (result = "ValueError" /\ docs = pre.docs)

----------------------------------------------------------------------------
(* C8: one extension for the explicit lists *)

\* the export in `call` passed its checks: it is in its loop or has saved
ExportAccepted == pc = "export_loop" \/ (Ended /\ result = "ok")

\* C8: an export of explicit lists that exist is accepted exactly when all
\* side-A paths carry one extension, txt or srt, case ignored; otherwise it
\* raises ValueError; the header row declares that extension in lower case.
C8_ExtensionHomogeneity ==
    (call.op = "export_paths_to_word" /\ ListsPresent) =>
        IF SharedExts = {}
        THEN Ended /\ result = "ValueError" /\ docs = pre.docs
        ELSE /\ ExportAccepted
             /\ \A e \in SharedExts : call.table[1] = HeaderRow(e)
             /\ (Ended => \A e \in SharedExts : SavedTable[1] = HeaderRow(e))

\* an export of lists whose side-A extensions differ in case only has saved
C8_Witness ==
    /\ call.op = "export_paths_to_word"
    /\ Ended
    /\ result = "ok"
    /\ \E i, j \in DOMAIN call.args.eng_paths :
           Splitext(call.args.eng_paths[i].name)[2] # Splitext(call.args.eng_paths[j].name)[2]

----------------------------------------------------------------------------
(* C9: the extension of a folder-mode export *)

\* the basenames named in the pairing warnings of the current call
WarnedNames ==
    UNION {Range(log[k].names) : k \in {j \in DOMAIN log : log[j].level = "warning"}}

\* the basenames of the marker rows of a table
MarkerNames(table) ==
    {SubSeq(table[r].cells[1], Len(FILE_PREFIX) + 2, Len(table[r].cells[1])) :
        r \in {x \in DOMAIN table : table[x].bold}}

\* the files of a folder whose name ends in "." and the extension, case ignored
Ending(folder, e) ==
    {f \in NamesIn(pre.fs, folder) : EndsWith(Lower(f), <<".">> \o e)}

\* C9: a folder-mode export without an extension raises ValueError unless
\* exactly one of txt and srt occurs among the side-A extensions; that one
\* is declared in the header, the pairs are the names ending in it (case
\* ignored) that both folders hold, the warnings name those only one
\* folder holds, and no other file is a section or is named in a warning.
C9_ExtensionInference ==
    (call.op = "export_to_word" /\ call.args.file_extension = NoneStr /\ FoldersPresent) =>
        IF Cardinality(FoundExts) # 1
        THEN Ended /\ result = "ValueError"
        ELSE \A e \in FoundExts :
               LET keepA == Ending(call.args.eng_folder, e)
                   keepB == Ending(call.args.rus_folder, e)
               IN  /\ ExportAccepted
                   /\ call.table[1] = HeaderRow(e)
                   /\ Range(call.paired) = keepA \cap keepB
                   /\ WarnedNames = (keepA \ keepB) \cup (keepB \ keepA)
                   /\ MarkerNames(call.table) \subseteq keepA \cap keepB
                   /\ (Ended => MarkerNames(SavedTable) = keepA \cap keepB)

\* a folder-mode export found its extension itself and paired a file whose
\* extension is in upper case, in folders that hold other files too
C9_Witness ==
    /\ call.op = "export_to_word"
    /\ call.args.file_extension = NoneStr
    /\ Ended
    /\ result = "ok"
    /\ B_TXT \in MarkerNames(SavedTable)
    /\ n_md \in NamesIn(pre.fs, call.args.eng_folder)

----------------------------------------------------------------------------
(* C10: a document without a recognizable table *)

\* no row of the document starts, once trimmed, with the type prefix or
\* the marker prefix (a document without tables included)
Unrecognizable(doc) ==
    \A t \in DOMAIN doc : \A r \in DOMAIN doc[t] :
        LET first == Strip(doc[t][r].cells[1]) IN
        ~StartsWith(first, TYPE_PREFIX) /\ ~StartsWith(first, FILE_PREFIX)

\* C10: an import of a document with no recognizable table raises
\* ValueError.
C10_NoTableIsError ==
    (/\ call.op = "import_from_word"
     /\ Ended
     /\ call.args.word_path \in DOMAIN pre.docs
     /\ Unrecognizable(pre.docs[call.args.word_path]))
    => result = "ValueError"

----------------------------------------------------------------------------
(* C11: the progress protocol *)

\* the call in `call` got as far as its loop
HasLoop == "progress" \in DOMAIN call

\* the number of sections the call fixed before its loop
NSections == IF call.op \in ExportOps THEN Len(call.paired) ELSE Len(call.items)

\* the positions the loop has passed without skipping the pair
Completed ==
    (1..call.idx) \ (IF "skipped" \in DOMAIN call THEN call.skipped ELSE {})

\* what section i produces is there: its marker row in the table of an
\* export, its two files among the writes of an import
SectionProduced(i) ==
    IF call.op \in ExportOps
    THEN MarkerRowsOf(call.table, call.paired[i]) # {}
    ELSE /\ \E k \in DOMAIN call.written :
                call.written[k].item = i /\ call.written[k].side = "eng"
         /\ \E k \in DOMAIN call.written :
                call.written[k].item = i /\ call.written[k].side = "rus"

\* C11 (as the code has it): the callback is called once for every section
\* the loop completed and for no other, when what the section produces is
\* there, always with the number of sections fixed before the loop as
\* total, and with done the position of the section among them, so done
\* grows strictly; a pair that export_to_word skips gets no call.
C11_ProgressProtocol ==
    HasLoop =>
        /\ call.total = NSections
        /\ Len(call.progress) = Cardinality(Completed)
        /\ \A k \in DOMAIN call.progress :
               /\ call.progress[k][2] = call.total
               /\ call.progress[k][1] \in Completed
               /\ SectionProduced(call.progress[k][1])
        /\ \A k, l \in DOMAIN call.progress :
               k < l => call.progress[k][1] < call.progress[l][1]
        /\ (Completed = 1..call.idx) =>
               call.progress = [k \in 1..call.idx |-> <<k, call.total>>]

\* a folder-mode export returned after it skipped a pair and completed another
C11_Witness ==
    /\ call.op = "export_to_word"
    /\ Ended
    /\ result = "ok"
    /\ call.skipped # {}
    /\ call.progress # <<>>

\* C11 (as claimed): a call that returned has called the callback with
\* done = 1, 2, ..., total in that order, the last call with done = total.
C11_DoneCountsToTotal ==
    (HasLoop /\ Ended /\ result = "ok") =>
        call.progress = [k \in 1..call.total |-> <<k, call.total>>]

----------------------------------------------------------------------------
(* C12: the order of the sections *)

\* the rows of a table that are marker rows
MarkerRowsIn(table) == {r \in DOMAIN table : table[r].bold}

\* the basename a marker row names
MarkerNameAt(table, r) ==
    SubSeq(table[r].cells[1], Len(FILE_PREFIX) + 2, Len(table[r].cells[1]))

\* the place where a basename first occurs in a list of paths
FirstIndex(paths, name) ==
    CHOOSE i \in DOMAIN paths :
        paths[i].name = name /\ \A j \in 1..(i - 1) : paths[j].name # name

\* C12: in the document of a finished export, of any two marker rows the
\* upper one names, in folder mode, the basename that sorts first, and in
\* explicit-list mode the basename that occurs first in the side-A list,
\* whether or not basenames occur again later in that list.
C12_SectionOrder ==
    ExportDone =>
        \A r1, r2 \in MarkerRowsIn(SavedTable) :
            r1 < r2 =>
                LET x == MarkerNameAt(SavedTable, r1)
                    y == MarkerNameAt(SavedTable, r2)
                IN  IF call.op = "export_to_word"
                    THEN StrLess(x, y)
                    ELSE FirstIndex(call.args.eng_paths, x)
                             < FirstIndex(call.args.eng_paths, y)

\* an explicit-list export has saved two sections, the basename of the
\* first of which occurs again after the second in the side-A list
C12_Witness ==
    /\ call.op = "export_paths_to_word"
    /\ ExportDone
    /\ \E r1, r2 \in MarkerRowsIn(SavedTable) :
           /\ r1 < r2
           /\ \E i, j \in DOMAIN call.args.eng_paths :
                  /\ i < j
                  /\ call.args.eng_paths[i].name = MarkerNameAt(SavedTable, r2)
                  /\ call.args.eng_paths[j].name = MarkerNameAt(SavedTable, r1)

----------------------------------------------------------------------------
(* C13: the structure of the exported document *)

\* the row after the data rows of the marker row m: the next marker row,
\* or one past the end of the table
NextMarker(table, m) ==
    IF \E x \in MarkerRowsIn(table) : x > m
    THEN CHOOSE x \in MarkerRowsIn(table) :
             x > m /\ \A y \in MarkerRowsIn(table) : y > m => x <= y
    ELSE Len(table) + 1

\* the paired basenames of the export in `call` whose two files are empty
EmptyPairs ==
    {n \in Range(call.paired) :
        /\ pre.fs[call.eng_map[n]].data = <<>>
        /\ pre.fs[call.rus_map[n]].data = <<>>}

\* the extension of the export in `call`: the one its side-A paths share,
\* the one given for the folders, or the one found in the side-A folder
ExportExts ==
    IF call.op = "export_paths_to_word" THEN SharedExts
    ELSE IF call.args.file_extension = NoneStr THEN FoundExts
    ELSE {call.args.file_extension}

\* C13: the document of a finished export is one table of two-cell rows;
\* its first row is the header row of the extension and no marker row; every
\* later row is the marker row of a paired basename or comes after one;
\* the marker row of a basename is followed, up to the next marker row or
\* the end, by exactly max(n_a, n_b) rows, row k holding line k of each
\* side; no two marker rows name one basename; a pair of two empty files
\* has a marker row with no row of its own after it.
C13_DocumentStructure ==
    ExportDone =>
        LET t == SavedTable
            M == MarkerRowsIn(t)
        IN  /\ Len(docs[call.args.output_path]) = 1
            /\ \A r \in DOMAIN t : Len(t[r].cells) = 2
            /\ t # <<>>
            /\ \E e \in ExportExts : t[1] = HeaderRow(e)
            /\ 1 \notin M
            /\ \A r \in 2..Len(t) : r \in M \/ \E m \in M : m < r
            /\ \A m \in M :
                   LET name == MarkerNameAt(t, m)
                       n    == NextMarker(t, m) - m - 1
                   IN  /\ t[m] = MarkerRow(name)
                       /\ name \in Range(call.paired)
                       /\ n = MaxOf(Len(call.read[name][1]), Len(call.read[name][2]))
                       /\ \A k \in 1..n :
                              t[m + k].cells = <<LineOrEmpty(call.read[name][1], k),
                                                 LineOrEmpty(call.read[name][2], k)>>
            /\ \A m1, m2 \in M :
                   MarkerNameAt(t, m1) = MarkerNameAt(t, m2) => m1 = m2
            /\ \A name \in EmptyPairs :
                   \E m \in M : MarkerNameAt(t, m) = name /\ NextMarker(t, m) = m + 1

\* an export has saved a pair of two empty files and a pair whose files
\* differ in their number of lines
C13_Witness ==
    /\ ExportDone
    /\ EmptyPairs # {}
    /\ \E name \in Range(call.paired) :
           Len(call.read[name][1]) # Len(call.read[name][2])

----------------------------------------------------------------------------
(* C14: how the line reader fails *)

\* read_lines_auto has been called and has returned or raised
ReaderDone == call.op = "read_lines_auto" /\ Ended

\* the file is there to be opened
Readable == call.args.file_path \in DOMAIN pre.fs

\* the encoding the first read is made with
ChosenEncoding ==
    LET file == pre.fs[call.args.file_path] IN
    IF call.args.force_encoding # None THEN call.args.force_encoding
    ELSE IF file.chardet = None THEN call.args.default_encoding
    ELSE IF file.chardet = "MacCyrillic" THEN "cp1251"
    ELSE file.chardet

\* the file holds a byte its own encoding cannot decode, or Cyrillic text
\* that is read under another encoding than it was written in
Malformed(file, enc) ==
    \E i \in DOMAIN file.data :
        file.data[i] = "<ff>" \/ (file.data[i] = "<ya>" /\ file.enc # enc)

\* C14: a file read under a codec open() knows is returned, malformed
\* bytes replaced, after one open; under an unknown codec the file is
\* opened a second time with default_encoding and what that read gives is
\* returned; when default_encoding is no codec either, the second error is
\* raised; a file that cannot be opened raises FileNotFoundError and no
\* lines are returned.
C14_ReaderFailures ==
    ReaderDone =>
        LET a == call.args
            o == call.outcome
        IN  IF ~Readable
            THEN result = "FileNotFoundError" /\ o.lines = <<>> /\ o.opens <= 2
            ELSE IF ChosenEncoding \in KnownCodecs
            THEN /\ result = "ok"
                 /\ o.opens = 1
                 /\ o.lines = ReadLines(pre.fs[a.file_path], ChosenEncoding)
                 /\ Malformed(pre.fs[a.file_path], ChosenEncoding) =>
                        \E k \in DOMAIN o.lines : "<?>" \in Range(o.lines[k])
            ELSE IF a.default_encoding \in KnownCodecs
            THEN /\ result = "ok"
                 /\ o.opens = 2
                 /\ o.lines = ReadLines(pre.fs[a.file_path], a.default_encoding)
            ELSE result = "LookupError" /\ o.opens = 2 /\ o.lines = <<>>

\* a file with an undecodable byte was read under an unknown forced codec
\* and came back from the second read
C14_Witness ==
    /\ ReaderDone
    /\ Readable
    /\ ChosenEncoding \notin KnownCodecs
    /\ result = "ok"
    /\ Malformed(pre.fs[call.args.file_path], call.args.default_encoding)

----------------------------------------------------------------------------
(* C15: the names of the written files *)

\* the extension the document of the import in `call` declares
ImportExt == IF DeclaresSrt(pre.docs[call.args.word_path]) THEN srt ELSE txt

\* the name the rule gives a recovered basename: the basename when it
\* ends, case ignored, in "." and the extension, else with these appended
IntendedName(base, e) ==
    IF Len(base) >= Len(e) + 1
       /\ Lower(SubSeq(base, Len(base) - Len(e), Len(base))) = <<".">> \o e
    THEN base
    ELSE base \o <<".">> \o e

\* a name ends, case ignored, in "." and the extension
HasExt(name, e) ==
    /\ Len(name) >= Len(e) + 1
    /\ Lower(SubSeq(name, Len(name) - Len(e), Len(name))) = <<".">> \o e

\* the recovered basename of the section a write belongs to
BaseOf(w) == call.items[w.item][1]

\* C15 (as claimed): every file an import writes is named by the rule,
\* and so ends in the declared extension.
C15_NamedByRule ==
    ImportRunning =>
        \A k \in DOMAIN call.written :
            LET w == call.written[k] IN
            /\ w.path.name = IntendedName(BaseOf(w), ImportExt)
            /\ HasExt(w.path.name, ImportExt)

\* C15 (as the code has it): every section is written as one side-A and
\* one side-B file; the rule gives the intended name, which ends in the
\* declared extension; the file is written under that name when overwrite
\* is on or the name is free in its folder as the section is written, and
\* else under that name with _1, _2, ... before its extension, which then
\* still ends the name unless the intended name has only dots before the
\* extension.
C15_OutputFilenames ==
    ImportRunning =>
        /\ \A i \in 1..call.idx :
               /\ Cardinality({k \in DOMAIN call.written :
                      call.written[k].item = i /\ call.written[k].side = "eng"}) = 1
               /\ Cardinality({k \in DOMAIN call.written :
                      call.written[k].item = i /\ call.written[k].side = "rus"}) = 1
        /\ \A k \in DOMAIN call.written :
               LET w        == call.written[k]
                   intended == IntendedName(BaseOf(w), ImportExt)
                   place    == [dir |-> w.path.dir, name |-> intended]
                   taken    == \/ place \in DOMAIN pre.fs
                               \/ \E j \in DOMAIN call.written :
                                      /\ call.written[j].item < w.item
                                      /\ call.written[j].path = place
               IN  /\ w.path.dir = IF w.side = "eng" THEN call.args.eng_output_folder
                                    ELSE call.args.rus_output_folder
                   /\ HasExt(intended, ImportExt)
                   /\ (call.args.overwrite \/ ~taken) => w.path.name = intended
                   /\ (~call.args.overwrite /\ taken) => Suffixed(w.path.name, intended)
                   /\ Splitext(intended)[2] # <<>> => HasExt(w.path.name, ImportExt)

\* an import with overwrite off wrote a section without the extension in
\* its basename under a name that was taken
C15_Witness ==
    /\ ImportRunning
    /\ ~call.args.overwrite
    /\ \E k \in DOMAIN call.written :
           LET w == call.written[k] IN
           /\ ~HasExt(BaseOf(w), ImportExt)
           /\ w.path.name # IntendedName(BaseOf(w), ImportExt)

----------------------------------------------------------------------------
(* C16: a basename given twice on one side *)

\* the two lists of the export in `call`, with the column of the table
\* and the default encoding of each
ExportSides ==
    { [paths |-> call.args.eng_paths, col |-> 1, default |-> "utf-8"],
      [paths |-> call.args.rus_paths, col |-> 2, default |-> "cp1251"] }

\* the places of a list that hold a path with the basename
Places(paths, name) == {i \in DOMAIN paths : paths[i].name = name}

\* the basenames a list holds more than once
Repeated(paths) ==
    {paths[i].name : i \in {x \in DOMAIN paths : Cardinality(Places(paths, paths[x].name)) > 1}}

\* the place of the last path with the basename
LastPlace(paths, name) ==
    CHOOSE i \in Places(paths, name) : \A j \in Places(paths, name) : j <= i

\* the lines of the file at a path as the export reads them
LinesAt(path, default) == read_lines_auto(pre.fs[path], default, None)

\* the texts of one column of the rows after the marker row m, up to the
\* next marker row or the end
ColumnAfter(table, m, col) ==
    [k \in 1..(NextMarker(table, m) - m - 1) |-> table[m + k].cells[col]]

\* a column holds the lines, then "" to its end
PaddedTo(column, lines) ==
    /\ Len(lines) <= Len(column)
    /\ \A k \in DOMAIN column : column[k] = LineOrEmpty(lines, k)

\* C16: an explicit-list export whose lists exist and share an extension
\* returns although a basename occurs twice in a list; its document holds
\* one marker row for a paired basename that does, the column of that side
\* holds under it the lines of the path given last, and a line that only
\* the paths given earlier hold is in no row of that column.
C16_LastPathWins ==
    (call.op = "export_paths_to_word" /\ Ended /\ ListsPresent /\ SharedExts # {}) =>
        /\ result = "ok"
        /\ \A side \in ExportSides :
           \A name \in Repeated(side.paths) \cap SideA \cap SideB :
               LET last == side.paths[LastPlace(side.paths, name)]
                   used == UNION {Range(LinesAt(side.paths[LastPlace(side.paths, n)],
                                                side.default)) :
                                      n \in SideA \cap SideB}
               IN  /\ Cardinality(MarkerRowsOf(SavedTable, name)) = 1
                   /\ \A m \in MarkerRowsOf(SavedTable, name) :
                          PaddedTo(ColumnAfter(SavedTable, m, side.col),
                                   LinesAt(last, side.default))
                   /\ \A i \in Places(side.paths, name) :
                      \A line \in Range(LinesAt(side.paths[i], side.default)) \ used :
                          \A r \in DOMAIN SavedTable : SavedTable[r].cells[side.col] # line

\* an explicit-list export has saved a section for a basename that its
\* side-A list holds twice, at paths whose files differ
C16_Witness ==
    /\ call.op = "export_paths_to_word"
    /\ ExportDone
    /\ \E name \in Repeated(call.args.eng_paths) \cap SideB :
       \E i \in Places(call.args.eng_paths, name) :
           pre.fs[call.args.eng_paths[i]]
               # pre.fs[call.args.eng_paths[LastPlace(call.args.eng_paths, name)]]

----------------------------------------------------------------------------
(* C17: marker rows are known by their prefix *)

\* the rows of a table but a first row that starts with the type prefix
BodyRows(table) ==
    IF table # <<>> /\ StartsWith(Strip(table[1].cells[1]), TYPE_PREFIX)
    THEN Tail(table) ELSE table

\* those rows of all the tables of a document, in order
RECURSIVE AllRows(_)
AllRows(doc) ==
    IF doc = <<>> THEN <<>> ELSE BodyRows(Head(doc)) \o AllRows(Tail(doc))

\* the rows whose first cell, trimmed, starts with the marker prefix
Marks(rows) == {r \in DOMAIN rows : StartsWith(Strip(rows[r].cells[1]), FILE_PREFIX)}

\* the basename such a row gives: its first cell without the prefix, trimmed
NameAt(rows, r) == Strip(Remove(Strip(rows[r].cells[1]), FILE_PREFIX))

\* the rows from one such row to the next, or to the end: how many
RowsAfter(rows, m) ==
    (IF \E x \in Marks(rows) : x > m
     THEN CHOOSE x \in Marks(rows) : x > m /\ \A y \in Marks(rows) : y > m => x <= y
     ELSE Len(rows) + 1) - m - 1

\* the first and the last such row that give a basename
FirstMark(rows, name) ==
    CHOOSE m \in Marks(rows) :
        NameAt(rows, m) = name
        /\ \A x \in Marks(rows) : NameAt(rows, x) = name => m <= x
LastMark(rows, name) ==
    CHOOSE m \in Marks(rows) :
        NameAt(rows, m) = name
        /\ \A x \in Marks(rows) : NameAt(rows, x) = name => x <= m

\* the second cell of a row, trimmed; "" when the row has one cell
SecondCell(row) == IF Len(row.cells) > 1 THEN Strip(row.cells[2]) ELSE <<>>

\* the sections of the import are those the rows with the prefix name,
\* each once, in the order they are first named
SectionsByPrefix(rows) ==
    /\ {call.items[i][1] : i \in DOMAIN call.items} = {NameAt(rows, m) : m \in Marks(rows)}
    /\ \A i, j \in DOMAIN call.items :
           i < j => FirstMark(rows, call.items[i][1]) < FirstMark(rows, call.items[j][1])

\* section i holds the rows after the last row that names it, trimmed
HoldsRowsAfter(rows, i) ==
    LET m == LastMark(rows, call.items[i][1]) IN
    /\ RecEng(i) = [k \in 1..RowsAfter(rows, m) |-> Strip(rows[m + k].cells[1])]
    /\ RecRus(i) = [k \in 1..RowsAfter(rows, m) |-> SecondCell(rows[m + k])]

\* the side-A lines of the exported files that, trimmed, start with the prefix
PrefixedLines ==
    UNION {{Strip(OrigEng(n)[k]) : k \in {x \in DOMAIN OrigEng(n) :
                                             StartsWith(Strip(OrigEng(n)[x]), FILE_PREFIX)}} :
              n \in Range(prev.call.paired)}

\* what a side-A line starting with the prefix comes to: it names a
\* section and is not a recovered line
ReadAsMarker ==
    /\ \A i \in DOMAIN call.items : \A k \in DOMAIN RecEng(i) :
           ~StartsWith(RecEng(i)[k], FILE_PREFIX)
    /\ ImportOfExport =>
           \A line \in PrefixedLines :
               \E i \in DOMAIN call.items :
                   call.items[i][1] = Strip(Remove(line, FILE_PREFIX))

\* C17 (as claimed): every row whose first cell, trimmed, starts with the
\* marker prefix starts a section, and the rows after it, up to the next
\* such row or the end, are the lines of that section; a side-A line that
\* starts with the prefix is read as a marker and not recovered as a line.
C17_RowsFollowMarker ==
    ImportRunning =>
        LET rows == AllRows(pre.docs[call.args.word_path]) IN
        /\ SectionsByPrefix(rows)
        /\ \A i \in DOMAIN call.items : HoldsRowsAfter(rows, i)
        /\ ReadAsMarker

\* C17 (as the code has it): the same, but the rows after a marker row
\* that names nothing belong to no section, and the section "" is empty.
C17_MarkerByPrefix ==
    ImportRunning =>
        LET rows == AllRows(pre.docs[call.args.word_path]) IN
        /\ SectionsByPrefix(rows)
        /\ \A i \in DOMAIN call.items :
               IF call.items[i][1] = <<>>
               THEN RecEng(i) = <<>> /\ RecRus(i) = <<>>
               ELSE HoldsRowsAfter(rows, i)
        /\ ReadAsMarker

\* an import of an exported document has a section that the export did
\* not make, named by a side-A line
C17_Witness ==
    /\ ImportOfExport
    /\ PrefixedLines # {}
    /\ \E i \in DOMAIN call.items :
           /\ call.items[i][1] \notin Range(prev.call.paired)
           /\ RecEng(i) # <<>>

----------------------------------------------------------------------------
(* C18: an export writes its document last *)

\* C18: while an export is in its loop, and after it raised (at a check,
\* at a read, or from the progress callback), the documents on disk are
\* those the call found; after it returned, they differ by the document at
\* output_path alone, which holds the table with every pair the loop did
\* not skip, saved when the loop was over and every callback made.
C18_SaveAtEnd ==
    call.op \in ExportOps =>
        IF Ended /\ result = "ok"
        THEN /\ docs = (call.args.output_path :> <<call.table>>) @@ pre.docs
             /\ call.idx = call.total
             /\ Len(call.progress) = Cardinality(Completed)
             /\ \A i \in Completed : MarkerRowsOf(SavedTable, call.paired[i]) # {}
        ELSE docs = pre.docs

\* the progress callback of an export raised in the second pass of the
\* loop, when another document was at output_path already
C18_Witness ==
    /\ call.op \in ExportOps
    /\ Ended
    /\ result = "CallbackError"
    /\ call.idx > 1
    /\ call.args.output_path \in DOMAIN pre.docs
    /\ pre.docs[call.args.output_path] # <<call.table>>

----------------------------------------------------------------------------
(* C19: the two files of a section bear one name *)

\* the names section i was written under on a side
WrittenNames(i, side) ==
    {call.written[k].path.name :
        k \in {x \in DOMAIN call.written :
                  call.written[x].item = i /\ call.written[x].side = side}}

\* C19: an import with overwrite off writes the side-A file and the
\* side-B file of every section under the same filename, whatever the
\* output folders held before.
C19_MirroredNames ==
    (ImportRunning /\ ~call.args.overwrite) =>
        \A i \in 1..call.idx : WrittenNames(i, "eng") = WrittenNames(i, "rus")

----------------------------------------------------------------------------
(* C20: no write of an import lands on another *)

\* C20: the writes of one import go to paths that differ from one another,
\* with overwrite on or off, whatever the recovered basenames and whether
\* or not the two output folders are one.
C20_DistinctWrites ==
    ImportRunning =>
        \A k, l \in DOMAIN call.written :
            k # l => call.written[k].path # call.written[l].path

----------------------------------------------------------------------------
(* C21: the recovered lines are the lines read *)

\* C21: in an import of an exported document, every line recovered for a
\* paired basename is the line the export read at that place of the file,
\* leading and trailing blanks included ("" where the file had no line).
C21_LineFidelity ==
    ImportOfExport =>
        \A i \in DOMAIN call.items :
            LET name == call.items[i][1] IN
            name \in Range(prev.call.paired) =>
                /\ \A k \in DOMAIN RecEng(i) : RecEng(i)[k] = LineOrEmpty(OrigEng(name), k)
                /\ \A k \in DOMAIN RecRus(i) : RecRus(i)[k] = LineOrEmpty(OrigRus(name), k)

----------------------------------------------------------------------------
(* C22: the written files read back *)

\* the lines an export reads from a file an import wrote on a side
ReadBack(w) ==
    read_lines_auto(w.file, IF w.side = "eng" THEN "utf-8" ELSE "cp1251", None)

\* the lines the import held for the section and side of a write
LinesOf(w) == IF w.side = "eng" THEN RecEng(w.item) ELSE RecRus(w.item)

\* the import in `call` has returned, and the document it read is the one
\* the call before it exported
ImportedExport ==
    /\ ImportDone
    /\ prev.call.op \in ExportOps
    /\ prev.result = "ok"
    /\ call.args.word_path = prev.call.args.output_path

\* the write of section i on a side
WriteOf(i, side) ==
    call.written[CHOOSE k \in DOMAIN call.written :
                     call.written[k].item = i /\ call.written[k].side = side]

\* C22: every file an import wrote reads back, line for line, as the lines
\* it was written from; and the two files of a paired basename, read
\* again, give the data rows the exported document had for it.
C22_ReadsBack ==
    /\ ImportRunning =>
           \A k \in DOMAIN call.written :
               ReadBack(call.written[k]) = LinesOf(call.written[k])
    /\ ImportedExport =>
           \A name \in Range(prev.call.paired) :
               \E i \in ItemsNamed(name) :
                   DataRows(ReadBack(WriteOf(i, "eng")), ReadBack(WriteOf(i, "rus")))
                       = DataRows(OrigEng(name), OrigRus(name))

============================================================================
